---- MODULE Spec2Model ----
(***************************************************************************)
(* Packageforce: package dependency resolution (PackageHelper) and the     *)
(* ordered deployment run (DeployService.deploy with getDeployUrls).       *)
(***************************************************************************)
EXTENDS Integers, Sequences, FiniteSets, TLC

\* ------------------------------------------------------------------------
\* Bounds and universes
\* ------------------------------------------------------------------------

\* total number of dependency declarations in one manifest
MaxEdges == 2
\* length of the packageNames argument of getDeploymentOrder
MaxReq == 2

\* packages that have a descriptor in sfdx-project.json
PkgNames == {"A", "B", "C"}
\* a name that dependencies and requests may use but no descriptor carries
Dangling == "X"
DepNames == PkgNames \cup {Dangling}

\* JavaScript `undefined` (and the empty string) for an optional string: falsy
NoStart == ""

Range(s) == {s[i] : i \in DOMAIN s}

SeqsUpTo(S, n) == UNION {[1..k -> S] : k \in 0..n}

\* manifests with at most maxEdges dependency declarations: packageDirectories
\* as a map name -> dependencies (in order)
ManifestsUpTo(maxEdges) ==
  UNION { UNION { UNION {
      { [n \in PkgNames |-> IF n = "A" THEN da ELSE IF n = "B" THEN db ELSE dc] :
            da \in [1..la -> DepNames], db \in [1..lb -> DepNames],
            dc \in [1..lc -> DepNames] }
      : lc \in 0..(maxEdges - la - lb) }
      : lb \in 0..(maxEdges - la) }
      : la \in 0..maxEdges }

Manifests == ManifestsUpTo(MaxEdges)

\* ------------------------------------------------------------------------
\* PackageHelper (pure over the loaded packageDirectories)
\* ------------------------------------------------------------------------

\* getPackageByName(n) !== undefined
getPackageByName(m, n) == n \in DOMAIN m

\* pkg.dependencies of a descriptor (undefined is treated like an empty list)
dependenciesOf(m, n) == IF n \in DOMAIN m THEN m[n] ELSE << >>

RECURSIVE hasCircularDependency(_, _, _)
RECURSIVE hasCircularLoop(_, _, _, _)

\* the `for (const dep of pkg.dependencies)` loop of hasCircularDependency;
\* returns at the first dependency for which the recursion reports a cycle
hasCircularLoop(m, deps, i, st) ==
  IF i > Len(deps) THEN [st EXCEPT !.res = FALSE]
  ELSE LET r == hasCircularDependency(m, deps[i], st)
       IN  IF r.res THEN r ELSE hasCircularLoop(m, deps, i + 1, r)

\* st carries the closure's shared sets `visited` and `visiting`
hasCircularDependency(m, pkgName, st) ==
  IF pkgName \in st.visiting THEN [st EXCEPT !.res = TRUE]
  ELSE IF pkgName \in st.visited THEN [st EXCEPT !.res = FALSE]
  ELSE LET st1 == [st EXCEPT !.visiting = @ \cup {pkgName}]
           st2 == hasCircularLoop(m, dependenciesOf(m, pkgName), 1, st1)
       IN  IF st2.res THEN st2
           ELSE [st2 EXCEPT !.visiting = @ \ {pkgName},
                            !.visited = @ \cup {pkgName},
                            !.res = FALSE]

RECURSIVE addPackageWithDependencies(_, _, _, _)
RECURSIVE addDependenciesLoop(_, _, _, _, _)

\* the `for (const dep of pkg.dependencies)` loop of addPackageWithDependencies;
\* a throw inside the loop ends it
addDependenciesLoop(m, deps, i, inc, st) ==
  IF i > Len(deps) \/ st.threw THEN st
  ELSE addDependenciesLoop(m, deps, i + 1, inc,
                           addPackageWithDependencies(m, deps[i], inc, st))

\* addPackageWithDependencies without the `if (visited.has(pkgName)) return`
addPackageWithDependencies_NoVisitedTest(m, pkgName, inc, st) ==
  IF ~getPackageByName(m, pkgName)
  THEN [st EXCEPT !.warns = Append(@, <<"PackageNotFound", pkgName>>)]
  ELSE LET c == hasCircularDependency(m, pkgName, st)
       IN  IF c.res
           THEN [c EXCEPT !.threw = TRUE, !.errPkg = pkgName]
           ELSE [c EXCEPT !.visited = @ \cup {pkgName},
                          !.order = Append(@, pkgName)]

\* addPackageWithDependencies without the hasCircularDependency test
addPackageWithDependencies_NoCycleTest(m, pkgName, inc, st) ==
  IF pkgName \in st.visited THEN st
  ELSE IF ~getPackageByName(m, pkgName)
       THEN [st EXCEPT !.warns = Append(@, <<"PackageNotFound", pkgName>>)]
  ELSE LET st1 == [st EXCEPT !.visited = @ \cup {pkgName}]
           st2 == IF inc
                  THEN addDependenciesLoop(m, dependenciesOf(m, pkgName),
                                           1, inc, st1)
                  ELSE st1
       IN  [st2 EXCEPT !.order = Append(@, pkgName)]

\* addPackageWithDependencies whose cycle test works on sets of its own and
\* leaves the closure's `visited` as it was
addPackageWithDependencies_OwnCycleSets(m, pkgName, inc, st) ==
  IF pkgName \in st.visited THEN st
  ELSE IF ~getPackageByName(m, pkgName)
       THEN [st EXCEPT !.warns = Append(@, <<"PackageNotFound", pkgName>>)]
  ELSE LET c == hasCircularDependency(m, pkgName,
                  [st EXCEPT !.visited = {}, !.visiting = {}])
       IN  IF c.res
           THEN [st EXCEPT !.threw = TRUE, !.errPkg = pkgName]
           ELSE LET st1 == [st EXCEPT !.visited = @ \cup {pkgName}]
                    st2 == IF inc
                           THEN addDependenciesLoop(m, dependenciesOf(m, pkgName),
                                                    1, inc, st1)
                           ELSE st1
                IN  IF st2.threw THEN st2
                    ELSE [st2 EXCEPT !.order = Append(@, pkgName)]

addPackageWithDependencies(m, pkgName, inc, st) ==
  IF pkgName \in st.visited THEN st
  ELSE IF ~getPackageByName(m, pkgName)
       THEN [st EXCEPT !.warns = Append(@, <<"PackageNotFound", pkgName>>)]
  ELSE LET c == hasCircularDependency(m, pkgName, st)
       IN  IF c.res
           THEN [c EXCEPT !.threw = TRUE, !.errPkg = pkgName]
           ELSE LET st1 == [c EXCEPT !.visited = @ \cup {pkgName}]
                    st2 == IF inc
                           THEN addDependenciesLoop(m, dependenciesOf(m, pkgName),
                                                    1, inc, st1)
                           ELSE st1
                IN  IF st2.threw THEN st2
                    ELSE [st2 EXCEPT !.order = Append(@, pkgName)]

\* the `for (const pkgName of packageNames)` loop of getDeploymentOrder
RECURSIVE processRequested(_, _, _, _, _)
processRequested(m, packageNames, i, inc, st) ==
  IF i > Len(packageNames) \/ st.threw THEN st
  ELSE processRequested(m, packageNames, i + 1, inc,
                        addPackageWithDependencies(m, packageNames[i], inc, st))

\* deploymentOrder.findIndex(pkg => pkg.package === startFrom); 0 stands for -1
findIndex(order, name) ==
  IF \E i \in DOMAIN order : order[i] = name
  THEN CHOOSE i \in DOMAIN order :
         order[i] = name /\ \A j \in 1..(i - 1) : order[j] # name
  ELSE 0

\* slice that drops the element at startIndex
slice_OffByOne(order, startIndex) == SubSeq(order, startIndex + 1, Len(order))

\* deploymentOrder.slice(startIndex), startIndex 1-based here
slice(order, startIndex) == SubSeq(order, startIndex, Len(order))

EmptyOrderState ==
  [visited |-> {}, visiting |-> {}, res |-> FALSE, order |-> << >>,
   warns |-> << >>, threw |-> FALSE, errPkg |-> ""]

\* getDeploymentOrder without the `startIndex !== -1` test: slice(-1) keeps
\* the last element only
getDeploymentOrder_NoIndexCheck(m, packageNames, inc, startFrom) ==
  LET st == processRequested(m, packageNames, 1, inc, EmptyOrderState)
      startIndex == findIndex(st.order, startFrom)
  IN  IF st.threw
      THEN [threw |-> TRUE, errPkg |-> st.errPkg, order |-> << >>,
            warns |-> st.warns]
      ELSE IF startFrom # NoStart
      THEN [threw |-> FALSE, errPkg |-> "",
            order |-> IF startIndex # 0 THEN slice(st.order, startIndex)
                      ELSE IF st.order = << >> THEN << >>
                      ELSE << st.order[Len(st.order)] >>,
            warns |-> st.warns]
      ELSE [threw |-> FALSE, errPkg |-> "", order |-> st.order,
            warns |-> st.warns]

getDeploymentOrder(m, packageNames, inc, startFrom) ==
  LET st == processRequested(m, packageNames, 1, inc, EmptyOrderState)
      startIndex == findIndex(st.order, startFrom)
  IN  IF st.threw
      THEN [threw |-> TRUE, errPkg |-> st.errPkg, order |-> << >>,
            warns |-> st.warns]
      ELSE IF startFrom # NoStart
      THEN IF startIndex # 0
           THEN [threw |-> FALSE, errPkg |-> "",
                 order |-> slice(st.order, startIndex), warns |-> st.warns]
           ELSE [threw |-> FALSE, errPkg |-> "", order |-> st.order,
                 warns |-> Append(st.warns, <<"StartNotFound", startFrom>>)]
      ELSE [threw |-> FALSE, errPkg |-> "", order |-> st.order,
            warns |-> st.warns]

RECURSIVE collectDependencies(_, _, _, _)
RECURSIVE collectLoop(_, _, _, _, _)

\* collectLoop that leaves the loop at a dependency without a descriptor
collectLoop_StopAtMissing(m, deps, i, incTrans, st) ==
  IF i > Len(deps) THEN st
  ELSE IF deps[i] \in st.visited
       THEN collectLoop(m, deps, i + 1, incTrans, st)
  ELSE LET st1 == [st EXCEPT !.visited = @ \cup {deps[i]}]
       IN  IF getPackageByName(m, deps[i])
           THEN LET st3 == IF incTrans
                           THEN collectDependencies(m, deps[i], incTrans, st1)
                           ELSE st1
                IN  collectLoop(m, deps, i + 1, incTrans,
                                [st3 EXCEPT !.dependencies = Append(@, deps[i])])
           ELSE [st1 EXCEPT
                   !.warns = Append(@, <<"DependencyNotFound", deps[i]>>)]

\* the `for (const dep of currentPkg.dependencies)` loop of collectDependencies
collectLoop(m, deps, i, incTrans, st) ==
  IF i > Len(deps) THEN st
  ELSE IF deps[i] \in st.visited
       THEN collectLoop(m, deps, i + 1, incTrans, st)
  ELSE LET st1 == [st EXCEPT !.visited = @ \cup {deps[i]}]
           st2 == IF getPackageByName(m, deps[i])
                  THEN LET st3 == IF incTrans
                                  THEN collectDependencies(m, deps[i], incTrans, st1)
                                  ELSE st1
                       IN  [st3 EXCEPT !.dependencies = Append(@, deps[i])]
                  ELSE [st1 EXCEPT
                          !.warns = Append(@, <<"DependencyNotFound", deps[i]>>)]
       IN  collectLoop(m, deps, i + 1, incTrans, st2)

collectDependencies(m, currentPkg, incTrans, st) ==
  collectLoop(m, dependenciesOf(m, currentPkg), 1, incTrans, st)

\* getPackageDependencies without the `if (!pkg)` guard of lines 77-80
getPackageDependencies_NoGuard(m, packageName, incTrans) ==
  LET st == collectDependencies(m, packageName, incTrans,
              [visited |-> {}, dependencies |-> << >>, warns |-> << >>])
  IN  [threw |-> FALSE, errPkg |-> "", order |-> st.dependencies,
       warns |-> st.warns]

getPackageDependencies(m, packageName, incTrans) ==
  IF ~getPackageByName(m, packageName)
  THEN [threw |-> FALSE, errPkg |-> "", order |-> << >>,
        warns |-> << <<"PackageNotFound", packageName>> >>]
  ELSE LET st == collectDependencies(m, packageName, incTrans,
                   [visited |-> {}, dependencies |-> << >>, warns |-> << >>])
       IN  [threw |-> FALSE, errPkg |-> "", order |-> st.dependencies,
            warns |-> st.warns]

\* ------------------------------------------------------------------------
\* DeployService: pure parts
\* ------------------------------------------------------------------------

\* total number of dependency declarations in a manifest used for a deploy run
MaxDeployEdges == 2
\* progress callbacks (deploy.onUpdate) observed while one deployment is polled
MaxUpdates == 2

\* options.targetOrg / 'target-org' config value when not set (falsy)
NoOrg == ""
\* this.org === undefined
NoConn == "none"

Usernames == {"u1", "u2"}
OrgAlias == "dev"
\* what a target org or the default org setting can be: a username or an alias
OrgRefs == Usernames \cup {OrgAlias}

\* packageAliases[name]: no entry, a package id (0Ho...), a managed version id
AliasNone == "none"
AliasPackage == "0Ho"
AliasManaged == "04t"
AliasKinds == {AliasNone, AliasPackage, AliasManaged}

\* AuthInfo.listAllAuthorizations(): usernames are distinct, one org at most
\* carries the alias
AuthLists ==
  LET users == {u \in SeqsUpTo(Usernames, 2) :
                   \A i, j \in DOMAIN u : i # j => u[i] # u[j]}
  IN  UNION { { [i \in DOMAIN u |->
                    [username |-> u[i],
                     aliases |-> IF u[i] = owner THEN {OrgAlias} ELSE {}]] :
                owner \in Range(u) \cup {NoConn} } : u \in users }

\* orgs.find(org => org.username === orgAlias || org.aliases?.includes(orgAlias));
\* 0 stands for undefined
matchingOrg(auths, orgAlias) ==
  IF \E i \in DOMAIN auths :
        auths[i].username = orgAlias \/ orgAlias \in auths[i].aliases
  THEN CHOOSE i \in DOMAIN auths :
         /\ auths[i].username = orgAlias \/ orgAlias \in auths[i].aliases
         /\ \A j \in 1..(i - 1) :
              ~(auths[j].username = orgAlias \/ orgAlias \in auths[j].aliases)
  ELSE 0

\* what the SDK answered during one setupOrg:
\*   cfgOk    ConfigAggregator.create() resolved
\*   listOk   AuthInfo.listAllAuthorizations() resolved
\*   create1  Org.create for the chosen alias: "ok", "notFound" (an Error whose
\*            message includes 'NamedOrgNotFoundError') or "other"
\*   create2  the Org.create of the catch block: "ok" or "error"
SetupInputs ==
  [cfgOk : BOOLEAN, listOk : BOOLEAN,
   create1 : {"ok", "notFound", "other", "none"},
   create2 : {"ok", "error", "none"}]

NoSetup == [cfgOk |-> TRUE, listOk |-> TRUE, create1 |-> "none", create2 |-> "none"]

SetupThrow(err, logs) == [threw |-> TRUE, org |-> NoConn, err |-> err, logs |-> logs]
SetupOk(o, logs) == [threw |-> FALSE, org |-> o, err |-> << >>, logs |-> logs]

\* createOrg that falls back to the first authorization on any Org.create error
createOrg_FallbackOnAnyError(e, orgAlias, in, logs) ==
  IF in.create1 = "ok"
  THEN SetupOk(e.auths[matchingOrg(e.auths, orgAlias)].username, logs)
  ELSE IF ~in.listOk THEN SetupThrow(<<"ListAuthorizationsFailed">>, logs)
  ELSE IF Len(e.auths) > 0
  THEN IF in.create2 = "error" THEN SetupThrow(<<"OrgCreateFailed">>, logs)
       ELSE IF matchingOrg(e.auths, orgAlias) # 0
       THEN LET u == e.auths[matchingOrg(e.auths, orgAlias)].username
            IN  SetupOk(u, Append(logs, <<"notify", "UsingOrg", u>>))
       ELSE SetupOk(e.auths[1].username,
                    Append(logs, <<"warning", "CouldNotFindOrgUsingFirst",
                                   orgAlias, e.auths[1].username>>))
  ELSE SetupThrow(<<"NoAuthenticatedOrgs">>, logs)

\* createOrg whose fallback never looks for the matching authorization
createOrg_AlwaysFirst(e, orgAlias, in, logs) ==
  IF in.create1 = "ok"
  THEN SetupOk(e.auths[matchingOrg(e.auths, orgAlias)].username, logs)
  ELSE IF in.create1 = "notFound"
  THEN IF ~in.listOk THEN SetupThrow(<<"ListAuthorizationsFailed">>, logs)
       ELSE IF Len(e.auths) > 0
       THEN IF in.create2 # "ok" THEN SetupThrow(<<"OrgCreateFailed">>, logs)
            ELSE SetupOk(e.auths[1].username,
                         Append(logs, <<"warning", "CouldNotFindOrgUsingFirst",
                                        orgAlias, e.auths[1].username>>))
       ELSE SetupThrow(<<"NoAuthenticatedOrgs">>, logs)
  ELSE SetupThrow(<<"OrgCreateFailed">>, logs)

\* lines 119-150: Org.create and the NamedOrgNotFoundError fallback
createOrg(e, orgAlias, in, logs) ==
  IF in.create1 = "ok"
  THEN SetupOk(e.auths[matchingOrg(e.auths, orgAlias)].username, logs)
  ELSE IF in.create1 = "notFound"
  THEN IF ~in.listOk THEN SetupThrow(<<"ListAuthorizationsFailed">>, logs)
       ELSE IF Len(e.auths) > 0
       THEN IF in.create2 # "ok" THEN SetupThrow(<<"OrgCreateFailed">>, logs)
            ELSE IF matchingOrg(e.auths, orgAlias) # 0
            THEN LET u == e.auths[matchingOrg(e.auths, orgAlias)].username
                 IN  SetupOk(u, Append(logs, <<"notify", "UsingOrg", u>>))
            ELSE SetupOk(e.auths[1].username,
                         Append(logs, <<"warning", "CouldNotFindOrgUsingFirst",
                                        orgAlias, e.auths[1].username>>))
       ELSE SetupThrow(<<"NoAuthenticatedOrgs">>, logs)
  ELSE SetupThrow(<<"OrgCreateFailed">>, logs)

\* lines 88-151
setupOrg(e, targetOrg, in) ==
  IF targetOrg = NoOrg
  THEN IF ~in.cfgOk THEN SetupThrow(<<"FailedToResolveDefaultOrg">>, << >>)
       ELSE IF e.defaultAlias = NoOrg
       THEN IF ~in.listOk THEN SetupThrow(<<"FailedToResolveDefaultOrg">>, << >>)
            ELSE IF Len(e.auths) > 0
            THEN createOrg(e, e.auths[1].username, in,
                           << <<"warning", "NoDefaultOrgUsingFirst",
                                e.auths[1].username>> >>)
            ELSE SetupThrow(<<"FailedToResolveDefaultOrg">>, << >>)
       ELSE createOrg(e, e.defaultAlias, in,
                      << <<"notify", "UsingDefaultTargetOrg", e.defaultAlias>> >>)
  ELSE createOrg(e, targetOrg, in, << <<"notify", "UsingTargetOrg", targetOrg>> >>)

\* the alias setupOrg hands to the first Org.create ("" when it throws before)
chosenAlias(e, targetOrg, in) ==
  IF targetOrg # NoOrg THEN targetOrg
  ELSE IF ~in.cfgOk THEN NoOrg
  ELSE IF e.defaultAlias # NoOrg THEN e.defaultAlias
  ELSE IF in.listOk /\ Len(e.auths) > 0 THEN e.auths[1].username
  ELSE NoOrg

\* the answers one setupOrg can get: an SDK call that is not made answers
\* nothing (TRUE / "none"), and Org.create succeeds only for a name that has
\* an authorization
SetupInputsFor(e, targetOrg) ==
  {in \in SetupInputs :
     LET a == chosenAlias(e, targetOrg, in)
         listAsked == \/ targetOrg = NoOrg /\ in.cfgOk /\ e.defaultAlias = NoOrg
                      \/ in.create1 = "notFound"
     IN  /\ targetOrg # NoOrg => in.cfgOk
         /\ ~listAsked => in.listOk
         /\ (in.create1 = "none") <=> (a = NoOrg)
         /\ in.create1 = "ok" => matchingOrg(e.auths, a) # 0
         /\ (in.create2 # "none") <=>
              (in.create1 = "notFound" /\ in.listOk /\ Len(e.auths) > 0)}

NoTree == [found |-> FALSE, packagename |-> "", dependency |-> << >>]

\* the dependency array built by the forEach of getDeployUrls
RECURSIVE treeDependencies(_, _, _, _)
treeDependencies(m, al, deps, i) ==
  IF i > Len(deps) THEN << >>
  ELSE IF al[deps[i]] # AliasNone /\ al[deps[i]] # AliasManaged
       THEN << [packagename |-> deps[i], hasPath |-> deps[i] \in DOMAIN m] >>
            \o treeDependencies(m, al, deps, i + 1)
       ELSE treeDependencies(m, al, deps, i + 1)

getDeployUrls(m, al, packagename) ==
  IF packagename \in DOMAIN m
  THEN [found |-> TRUE, packagename |-> packagename,
        dependency |-> treeDependencies(m, al, dependenciesOf(m, packagename), 1)]
  ELSE NoTree

\* the `for (const dep of packageDependencyTree.dependency)` loop of deploy, run
\* from index i up to the next deployPackageTreeNode call (kind "dep") or to
\* the end of the loop (kind "main")
RECURSIVE depLoop(_, _, _, _, _)
depLoop(deps, i, started, startFrom, logs) ==
  IF i > Len(deps)
  THEN [kind |-> "main", idx |-> Len(deps) + 1, isStarted |-> started, logs |-> logs]
  ELSE IF startFrom # NoStart /\ ~started /\ startFrom # deps[i].packagename
  THEN depLoop(deps, i + 1, started, startFrom, logs)
  ELSE LET restart == startFrom # NoStart /\ ~started
           logs2 == IF restart
                    THEN Append(logs, <<"warning", "Restarting", startFrom>>)
                    ELSE logs
       IN  IF deps[i].hasPath
           THEN [kind |-> "dep", idx |-> i, isStarted |-> started \/ restart,
                 logs |-> logs2]
           ELSE depLoop(deps, i + 1, started \/ restart, startFrom, logs2)

\* lines 48-53 and the loop entry
firstStep(t, o) ==
  IF o.includeDependencies /\ Len(t.dependency) > 0
  THEN depLoop(t.dependency, 1, FALSE, o.startFrom,
               << <<"notify", "FirstDeployDependencies">> >>)
  ELSE [kind |-> "main", idx |-> Len(t.dependency) + 1, isStarted |-> FALSE,
        logs |-> << >>]

\* what a terminal result that is not a success carries in response.details
FailureKinds == {"failedComponent", "failedTest", "failedOther"}

\* how `await deploy.pollStatus()` can settle
PollResults == FailureKinds \cup {"success", "pollError"}

\* displayErrors that never prints the component failure table
displayErrors_Generic(kind, pck) ==
  IF kind = "failedTest" THEN << <<"error", "TestFailures", pck>> >>
  ELSE << <<"error", "ValidationFailed", pck>> >>

displayErrors(kind, pck) ==
  IF kind = "failedComponent" THEN << <<"error", "ComponentFailures", pck>> >>
  ELSE IF kind = "failedTest" THEN << <<"error", "TestFailures", pck>> >>
  ELSE << <<"error", "ValidationFailed", pck>> >>

\* the test levels the advanced options offer (packageCommands.ts lines
\* 166-171); NoTestLevel stands for a field that is not set
TestLevels == {"NoTestRun", "RunSpecifiedTests", "RunLocalTests", "RunAllTestsInOrg"}

NoTestLevel == "unset"

\* the test classes typed in for RunSpecifiedTests: none, or one
TestLists == {<< >>, <<"T1">>}

\* apiOptions that drops the checkOnly flag of the options
apiOptions_NeverCheckOnly(options) ==
  [checkOnly |-> FALSE, testLevel |-> NoTestLevel, runTests |-> << >>]

\* the apiOptions of the deploy request (lines 162-169): checkOnly is copied
\* from the options, the testLevel and runTests lines are commented out, so
\* the request leaves both unset
apiOptions(options) ==
  [checkOnly |-> options.checkOnly, testLevel |-> NoTestLevel,
   runTests |-> << >>]

\* ------------------------------------------------------------------------
\* State
\* ------------------------------------------------------------------------

VARIABLES
  manifest,   \* packageDirectories of sfdx-project.json: name -> dependencies
  hcall,      \* the last PackageHelper call: arguments and what it returned
  aliases,    \* packageAliases of sfdx-project.json: name -> kind of id
  env,        \* the SDK's stored configuration: default org, authorizations
  opts,       \* the DeployOptions of the run
  pc,         \* where deploy() stands
  setupIn,    \* what the SDK answered during setupOrg
  org,        \* DeployService.org: username of the connection, or NoConn
  tree,       \* packageDependencyTree
  cursor,     \* position in deploy(): [kind, idx] of the node to deploy next
  isStarted,  \* the loop's isStarted flag
  attempts,   \* deployments handed to the remote client, oldest first
  counter,    \* the onUpdate closure's counter of the deployment in flight
  updates,    \* onUpdate callbacks seen for the deployment in flight
  log,        \* DeployLogger output
  error,      \* what deploy() rejected with, << >> if nothing
  cancelRequested, \* the user has asked to cancel the run
  pool,       \* ScratchOrgInfo records of the Dev Hub with one pool tag
  fetch,      \* the fetchScratchOrg calls: where each stands, what it holds
  items,      \* ApexTestQueueItem.Status of the items of the test job
  poll        \* the pollTestExecution call

helperVars == <<manifest, hcall>>
deployVars == <<aliases, env, opts, pc, setupIn, org, tree, cursor, isStarted,
                attempts, counter, updates, log, error, cancelRequested>>
serviceVars == <<pool, fetch, items, poll>>
vars == <<manifest, hcall, aliases, env, opts, pc, setupIn, org, tree, cursor,
          isStarted, attempts, counter, updates, log, error, cancelRequested,
          pool, fetch, items, poll>>

NoCall ==
  [op |-> "none", names |-> << >>, inc |-> FALSE, startFrom |-> NoStart,
   threw |-> FALSE, errPkg |-> "", order |-> << >>, warns |-> << >>]

NoCursor == [kind |-> "none", idx |-> 0]

\* one authorized org that is also the default
SimpleEnv ==
  [defaultAlias |-> OrgAlias,
   auths |-> << [username |-> "u1", aliases |-> {OrgAlias}] >>]

\* scratch orgs of the pool, in CreatedDate order: 1 is the oldest
MaxPoolOrgs == 2

\* fetchScratchOrg calls that may run at the same time
MaxFetchers == 2

PoolOrgs == 1..MaxPoolOrgs

Fetchers == 1..MaxFetchers

NoRecord == 0

AllocationStatuses == {"Available", "Allocated"}

\* a fetchScratchOrg call that has not started; devHubOrg is set or not
IdleFetch(devHub) ==
  [pc |-> "idle", devHubOrg |-> devHub, org |-> NoRecord, error |-> ""]

\* queue items of the test job
MaxItems == 2

TestItems == 1..MaxItems

\* ApexTestQueueItem.Status as checkTestStatus sorts it: Preparing stands for
\* the statuses of the default branch
ItemStatuses == {"Queued", "Preparing", "Processing", "Completed", "Failed"}

maxAttempts == 360

NoResult == << >>

IdlePoll(conn) ==
  [pc |-> "idle", connection |-> conn, attempts |-> 0, polls |-> 0,
   progress |-> 0, result |-> NoResult, error |-> ""]

\* no pool call and no test run in progress
IdleServices ==
  /\ pool = [o \in PoolOrgs |-> [status |-> "Available", authUrl |-> TRUE]]
  /\ fetch = [c \in Fetchers |-> IdleFetch(TRUE)]
  /\ items = [i \in TestItems |-> "Completed"]
  /\ poll = IdlePoll(TRUE)

IdleDeploy ==
  /\ pc = "start"
  /\ setupIn = NoSetup
  /\ org = NoConn
  /\ tree = NoTree
  /\ cursor = NoCursor
  /\ isStarted = FALSE
  /\ attempts = << >>
  /\ counter = 0
  /\ updates = 0
  /\ log = << >>
  /\ error = << >>
  /\ cancelRequested = FALSE

\* ------------------------------------------------------------------------
\* PackageHelper calls
\* ------------------------------------------------------------------------

HelperInit ==
  /\ manifest \in Manifests
  /\ hcall = NoCall
  /\ aliases = [n \in DepNames |-> AliasPackage]
  /\ env = SimpleEnv
  /\ opts = [packageName |-> "C", targetOrg |-> NoOrg,
             includeDependencies |-> FALSE, startFrom |-> NoStart,
             checkOnly |-> FALSE, continueOnFailure |-> FALSE,
             testLevel |-> NoTestLevel, runTests |-> << >>]
  /\ IdleDeploy
  /\ IdleServices

CallGetDeploymentOrder ==
  /\ hcall.op = "none"
  /\ \E names \in SeqsUpTo(DepNames, MaxReq), inc \in BOOLEAN,
        sf \in DepNames \cup {NoStart} :
       LET r == getDeploymentOrder(manifest, names, inc, sf)
       IN  hcall' = [op |-> "getDeploymentOrder", names |-> names, inc |-> inc,
                     startFrom |-> sf, threw |-> r.threw, errPkg |-> r.errPkg,
                     order |-> r.order, warns |-> r.warns]
  /\ UNCHANGED <<manifest, deployVars, serviceVars>>

CallGetPackageDependencies ==
  /\ hcall.op = "none"
  /\ \E name \in DepNames, incTrans \in BOOLEAN :
       LET r == getPackageDependencies(manifest, name, incTrans)
       IN  hcall' = [op |-> "getPackageDependencies", names |-> <<name>>,
                     inc |-> incTrans, startFrom |-> NoStart,
                     threw |-> r.threw, errPkg |-> r.errPkg,
                     order |-> r.order, warns |-> r.warns]
  /\ UNCHANGED <<manifest, deployVars, serviceVars>>

\* the caller has consumed the result; the singleton is ready for another call
HelperReturn ==
  /\ hcall.op # "none"
  /\ hcall' = NoCall
  /\ UNCHANGED <<manifest, deployVars, serviceVars>>

HelperNext ==
  \/ CallGetDeploymentOrder
  \/ CallGetPackageDependencies
  \/ HelperReturn

SpecHelper == HelperInit /\ [][HelperNext]_vars

\* ------------------------------------------------------------------------
\* DeployService.deploy
\* ------------------------------------------------------------------------

\* runs that vary the manifest, the alias map and the resume point; the
\* manifests are closed under renaming A, B and C, so the requested package is
\* C, or the name without a descriptor
PlanSlice ==
  /\ manifest \in ManifestsUpTo(MaxDeployEdges)
  /\ \E pk \in {"C", Dangling}, inc \in BOOLEAN, sf \in DepNames \cup {NoStart} :
       opts = [packageName |-> pk, targetOrg |-> NoOrg,
               includeDependencies |-> inc, startFrom |-> sf,
               checkOnly |-> FALSE, continueOnFailure |-> FALSE,
               testLevel |-> NoTestLevel, runTests |-> << >>]
  \* getDeployUrls reads packageAliases only at the requested package's
  \* dependencies; the other entries are held at a package id
  /\ aliases \in [DepNames -> AliasKinds]
  /\ \A n \in DepNames :
       n \notin Range(dependenciesOf(manifest, opts.packageName))
         => aliases[n] = AliasPackage
  /\ env = SimpleEnv

\* runs of a three-package plan that vary the options and the org setup
OptionSlice ==
  /\ manifest = [n \in PkgNames |-> IF n = "C" THEN <<"A", "B">> ELSE << >>]
  /\ aliases = [n \in DepNames |-> AliasPackage]
  /\ \E t \in OrgRefs \cup {NoOrg}, co \in BOOLEAN, cf \in BOOLEAN :
       opts = [packageName |-> "C", targetOrg |-> t,
               includeDependencies |-> TRUE, startFrom |-> NoStart,
               checkOnly |-> co, continueOnFailure |-> cf,
               testLevel |-> NoTestLevel, runTests |-> << >>]
  /\ env \in [defaultAlias : OrgRefs \cup {NoOrg}, auths : AuthLists]

\* runs of the same plan with the options of showAdvancedOptions
\* (packageCommands.ts lines 159-229): a test level, test classes when the
\* level is RunSpecifiedTests, dependencies or not, deploy or validate
TestLevelSlice ==
  /\ manifest = [n \in PkgNames |-> IF n = "C" THEN <<"A", "B">> ELSE << >>]
  /\ aliases = [n \in DepNames |-> AliasPackage]
  /\ \E tl \in TestLevels, rt \in TestLists, inc \in BOOLEAN, co \in BOOLEAN :
       /\ tl # "RunSpecifiedTests" => rt = << >>
       /\ opts = [packageName |-> "C", targetOrg |-> NoOrg,
                  includeDependencies |-> inc, startFrom |-> NoStart,
                  checkOnly |-> co, continueOnFailure |-> FALSE,
                  testLevel |-> tl, runTests |-> rt]
  /\ env = SimpleEnv

Init ==
  /\ hcall = NoCall
  /\ IdleDeploy
  /\ IdleServices
  /\ PlanSlice \/ OptionSlice \/ TestLevelSlice

\* the catch block of deploy (lines 81-85): log, show, rethrow
Throw(err, logs) ==
  /\ pc' = "thrown"
  /\ error' = err
  /\ log' = log \o logs \o << <<"error", "DeploymentFailed", err>> >>

\* lines 28-35 with setupOrg
SetupOrg ==
  /\ pc = "start"
  /\ \E in \in SetupInputsFor(env, opts.targetOrg) :
       LET r == setupOrg(env, opts.targetOrg, in)
       IN  /\ setupIn' = in
           /\ org' = r.org
           /\ IF r.threw
              THEN Throw(r.err, << <<"header">> >> \o r.logs)
              ELSE /\ pc' = "getTree"
                   /\ log' = log \o << <<"header">> >> \o r.logs
                   /\ UNCHANGED error
  /\ UNCHANGED <<serviceVars, cancelRequested, manifest, hcall, aliases, env, opts, tree, cursor, isStarted,
                 attempts, counter, updates>>

\* lines 37-53 and the loop up to the first deployPackageTreeNode call;
\* this.project is set: the caller awaits initialize() before deploy()
GetTree ==
  /\ pc = "getTree"
  /\ LET t == getDeployUrls(manifest, aliases, opts.packageName)
         s == firstStep(t, opts)
     IN  /\ tree' = t
         /\ IF ~t.found
            THEN /\ Throw(<<"PackageNotFound", opts.packageName>>, << >>)
                 /\ UNCHANGED <<cursor, isStarted>>
            ELSE /\ pc' = "submit"
                 /\ cursor' = [kind |-> s.kind, idx |-> s.idx]
                 /\ isStarted' = s.isStarted
                 /\ log' = log \o s.logs
                 /\ UNCHANGED error
  /\ UNCHANGED <<serviceVars, cancelRequested, manifest, hcall, aliases, env, opts, setupIn, org, attempts,
                 counter, updates>>

\* the package of the tree node the cursor stands at
nodePackage(t, c) ==
  IF c.kind = "dep" THEN t.dependency[c.idx].packagename ELSE t.packagename

\* Submit as it would be if deploy() did not await deployPackageTreeNode: the
\* loop goes on to the next node while the deployment is still in flight
Submit_NoAwait ==
  /\ pc = "submit"
  /\ org # NoConn
  /\ LET pck == nodePackage(tree, cursor)
         s == depLoop(tree.dependency, cursor.idx + 1, isStarted,
                      opts.startFrom, << >>)
     IN  /\ attempts' = Append(attempts,
                               [pkg |-> pck, idx |-> cursor.idx, conn |-> org,
                                status |-> "inflight"] @@ apiOptions(opts))
         /\ IF cursor.kind = "dep"
            THEN /\ cursor' = [kind |-> s.kind, idx |-> s.idx]
                 /\ isStarted' = s.isStarted
                 /\ pc' = "submit"
            ELSE /\ pc' = "done"
                 /\ UNCHANGED <<cursor, isStarted>>
  /\ UNCHANGED <<serviceVars, cancelRequested, manifest, hcall, aliases, env, opts, setupIn, org, tree,
                 counter, updates, log, error>>

\* deployPackageTreeNode up to `await componentSet.deploy(deployOptions)`
\* (lines 153-171), for a dependency or for the main package (lines 73-75)
Submit ==
  /\ pc = "submit"
  /\ LET pck == nodePackage(tree, cursor)
         pre == (IF cursor.kind = "main"
                 THEN << <<"notify", "DeployPackage", pck>> >> ELSE << >>)
         chk == (IF opts.checkOnly
                 THEN << <<"notify", "Validating", pck>> >> ELSE << >>)
         req == [pkg |-> pck, idx |-> cursor.idx, conn |-> org]
                  @@ apiOptions(opts)
     IN  \/ /\ org = NoConn
            /\ Throw(<<"OrgNotInitialized">>, pre)
            /\ UNCHANGED <<attempts, counter, updates>>
         \/ /\ org # NoConn
            /\ \/ \* ComponentSet.fromSource(path) throws
                  /\ Throw(<<"SourceError", pck>>, pre)
                  /\ UNCHANGED <<attempts, counter, updates>>
               \/ \* componentSet.deploy rejects: the request did not go through
                  /\ attempts' = Append(attempts, req @@ [status |-> "transportError"])
                  /\ Throw(<<"TransportError", pck>>, pre \o chk)
                  /\ UNCHANGED <<counter, updates>>
               \/ \* the deployment is queued in the org
                  /\ attempts' = Append(attempts, req @@ [status |-> "inflight"])
                  /\ counter' = 0
                  /\ updates' = 0
                  /\ pc' = "polling"
                  /\ log' = log \o pre \o chk
                  /\ UNCHANGED error
  /\ UNCHANGED <<serviceVars, cancelRequested, manifest, hcall, aliases, env, opts, setupIn, org, tree, cursor,
                 isStarted>>

\* one deploy.onUpdate callback (lines 175-184)
PollUpdate ==
  /\ pc = "polling"
  /\ updates < MaxUpdates
  /\ updates' = updates + 1
  /\ IF counter = 5
     THEN /\ counter' = 0
          /\ log' = Append(log, <<"trace", "Progress",
                                  attempts[Len(attempts)].pkg>>)
     ELSE /\ counter' = counter + 1
          /\ UNCHANGED log
  /\ UNCHANGED <<serviceVars, cancelRequested, manifest, hcall, aliases, env, opts, pc, setupIn, org, tree,
                 cursor, isStarted, attempts, error>>

SetLast(status) ==
  [attempts EXCEPT ![Len(attempts)] = [@ EXCEPT !.status = status]]

\* pollOutcome without the throw after displayErrors
pollOutcome_NoThrow(result, pck) ==
  IF result = "pollError"
  THEN [throws |-> TRUE, err |-> <<"PollError", pck>>, logs |-> << >>]
  ELSE IF result \in FailureKinds
  THEN [throws |-> FALSE, err |-> << >>, logs |-> displayErrors(result, pck)]
  ELSE [throws |-> FALSE, err |-> << >>,
        logs |-> << <<"success", "Deployed", pck>> >>]

\* pollOutcome that swallows a rejected pollStatus and carries on
pollOutcome_SwallowPollError(result, pck) ==
  IF result = "pollError"
  THEN [throws |-> FALSE, err |-> << >>, logs |-> << >>]
  ELSE IF result \in FailureKinds
  THEN [throws |-> TRUE, err |-> <<"DeploymentFailedForPackage", pck>>,
        logs |-> displayErrors(result, pck)]
  ELSE [throws |-> FALSE, err |-> << >>,
        logs |-> << <<"success", "Deployed", pck>> >>]

\* what deployPackageTreeNode does with the settled pollStatus (lines 187-195):
\* a rejection propagates, a response without success is displayed and thrown
pollOutcome(result, pck) ==
  IF result = "pollError"
  THEN [throws |-> TRUE, err |-> <<"PollError", pck>>, logs |-> << >>]
  ELSE IF result \in FailureKinds
  THEN [throws |-> TRUE, err |-> <<"DeploymentFailedForPackage", pck>>,
        logs |-> displayErrors(result, pck)]
  ELSE [throws |-> FALSE, err |-> << >>,
        logs |-> << <<"success", "Deployed", pck>> >>]

\* `await deploy.pollStatus()` settles; when deployPackageTreeNode returns,
\* deploy() runs on to the next deployPackageTreeNode call or to its end
\* (lines 55-79)
PollDone ==
  /\ pc = "polling"
  /\ \E result \in PollResults :
       LET pck == attempts[Len(attempts)].pkg
           out == pollOutcome(result, pck)
       IN  /\ attempts' = SetLast(result)
           /\ IF out.throws
              THEN /\ Throw(out.err, out.logs)
                   /\ UNCHANGED <<cursor, isStarted>>
              ELSE /\ UNCHANGED error
                   /\ IF cursor.kind = "dep"
                      THEN LET s == depLoop(tree.dependency, cursor.idx + 1,
                                            isStarted, opts.startFrom, << >>)
                           IN  /\ cursor' = [kind |-> s.kind, idx |-> s.idx]
                               /\ isStarted' = s.isStarted
                               /\ pc' = "submit"
                               /\ log' = log \o out.logs \o s.logs
                      ELSE /\ pc' = "done"
                           /\ log' = log \o out.logs
                                       \o << <<"success", "DeploymentFinished">> >>
                           /\ UNCHANGED <<cursor, isStarted>>
  \* the closure's counter goes out of scope with deployPackageTreeNode
  /\ counter' = 0
  /\ updates' = 0
  /\ UNCHANGED <<serviceVars, cancelRequested, manifest, hcall, aliases, env, opts, setupIn, org, tree>>

Next ==
  \/ SetupOrg
  \/ GetTree
  \/ Submit
  \/ PollUpdate
  \/ PollDone

Spec == Init /\ [][Next]_vars

\* the user asks to cancel while the run is in progress. The progress
\* notification deploy() runs under is created with cancellable: false and its
\* token is not handed on (packageCommands.ts lines 96-121), and DeployOptions
\* has no field for one (lines 9-17): nothing in deploy() reads the request
RequestCancel ==
  /\ pc \in {"start", "getTree", "submit", "polling"}
  /\ ~cancelRequested
  /\ cancelRequested' = TRUE
  /\ UNCHANGED <<serviceVars, manifest, hcall, aliases, env, opts, pc, setupIn,
                 org, tree, cursor, isStarted, attempts, counter, updates, log,
                 error>>

CancelInit ==
  /\ hcall = NoCall
  /\ IdleDeploy
  /\ IdleServices
  /\ TestLevelSlice

CancelNext ==
  \/ Next
  \/ RequestCancel

SpecCancel == CancelInit /\ [][CancelNext]_vars

\* ------------------------------------------------------------------------
\* PoolService.fetchScratchOrg
\* ------------------------------------------------------------------------

\* no PackageHelper call and no deployment in progress
IdleProject ==
  /\ manifest = [n \in PkgNames |-> << >>]
  /\ hcall = NoCall
  /\ aliases = [n \in DepNames |-> AliasPackage]
  /\ env = SimpleEnv
  /\ opts = [packageName |-> "C", targetOrg |-> NoOrg,
             includeDependencies |-> FALSE, startFrom |-> NoStart,
             checkOnly |-> FALSE, continueOnFailure |-> FALSE,
             testLevel |-> NoTestLevel, runTests |-> << >>]
  /\ IdleDeploy

\* the record the query of lines 136-147 returns: the oldest one whose
\* Allocation_status__c is Available (ORDER BY CreatedDate ASC LIMIT 1);
\* every record of the model has the tag, is Active and has not expired
firstAvailable(p) ==
  IF \E o \in DOMAIN p : p[o].status = "Available"
  THEN CHOOSE o \in DOMAIN p :
         /\ p[o].status = "Available"
         /\ \A q \in DOMAIN p : p[q].status = "Available" => o <= q
  ELSE NoRecord

PoolInit ==
  /\ IdleProject
  /\ pool \in [PoolOrgs -> [status : AllocationStatuses, authUrl : BOOLEAN]]
  /\ fetch \in [Fetchers -> {IdleFetch(h) : h \in BOOLEAN}]
  /\ items = [i \in TestItems |-> "Completed"]
  /\ poll = IdlePoll(TRUE)

FetchThrow(c, o, err) ==
  fetch' = [fetch EXCEPT ![c] = [@ EXCEPT !.pc = "thrown", !.org = o,
                                          !.error = err]]

\* fetchScratchOrg from its start to `await authenticateUsingSfdxAuthUrl`
\* (lines 122-182): the devHubOrg test, the query, the auth url test
FetchQuery(c) ==
  /\ fetch[c].pc = "idle"
  /\ IF ~fetch[c].devHubOrg
     THEN FetchThrow(c, NoRecord, "DevHubNotInitialized")
     ELSE \/ \* conn.query rejects
             FetchThrow(c, NoRecord, "QueryError")
          \/ LET o == firstAvailable(pool)
             IN  IF o = NoRecord
                 THEN FetchThrow(c, NoRecord, "NoAvailableScratchOrg")
                 ELSE IF ~pool[o].authUrl
                 THEN FetchThrow(c, o, "InvalidSfdxAuthUrl")
                 ELSE fetch' = [fetch EXCEPT ![c] =
                                  [@ EXCEPT !.pc = "authenticating", !.org = o]]
  /\ UNCHANGED <<manifest, hcall, deployVars, pool, items, poll>>

\* authenticateUsingSfdxAuthUrl settles (lines 182, 243-305)
FetchAuthenticate(c) ==
  /\ fetch[c].pc = "authenticating"
  /\ \/ FetchThrow(c, fetch[c].org, "AuthenticationFailed")
     \/ fetch' = [fetch EXCEPT ![c] = [@ EXCEPT !.pc = "updating"]]
  /\ UNCHANGED <<manifest, hcall, deployVars, pool, items, poll>>

\* updateAllocationStatus settles and fetchScratchOrg returns the username
\* (lines 186-197, 307-326): a rejected update is logged as a warning and
\* not thrown
FetchUpdate(c) ==
  /\ fetch[c].pc = "updating"
  /\ \/ pool' = [pool EXCEPT ![fetch[c].org] = [@ EXCEPT !.status = "Allocated"]]
     \/ UNCHANGED pool
  /\ fetch' = [fetch EXCEPT ![c] = [@ EXCEPT !.pc = "returned"]]
  /\ UNCHANGED <<manifest, hcall, deployVars, items, poll>>

PoolNext ==
  \E c \in Fetchers :
    \/ FetchQuery(c)
    \/ FetchAuthenticate(c)
    \/ FetchUpdate(c)

SpecPool == PoolInit /\ [][PoolNext]_vars

\* ------------------------------------------------------------------------
\* TestService.pollTestExecution
\* ------------------------------------------------------------------------

PollInit ==
  /\ IdleProject
  /\ pool = [o \in PoolOrgs |-> [status |-> "Available", authUrl |-> TRUE]]
  /\ fetch = [c \in Fetchers |-> IdleFetch(TRUE)]
  /\ items \in [TestItems -> ItemStatuses]
  /\ poll \in {IdlePoll(conn) : conn \in BOOLEAN}

\* the loop test with `<=` for `<`
loopContinues_OffByOne(n) == n <= maxAttempts

\* `while (attempts < maxAttempts)` (line 689)
loopContinues(n) == n < maxAttempts

\* the ApexTestQueueResult of checkTestStatus (lines 718-750): the items
\* sorted into lists by their Status, here the lengths of the lists
checkTestStatus(its) ==
  [Queued |-> Cardinality({i \in DOMAIN its : its[i] = "Queued"}),
   Processing |-> Cardinality({i \in DOMAIN its : its[i] = "Processing"}),
   Completed |-> Cardinality({i \in DOMAIN its : its[i] = "Completed"}),
   Failed |-> Cardinality({i \in DOMAIN its : its[i] = "Failed"}),
   Other |-> Cardinality({i \in DOMAIN its :
               its[i] \notin {"Queued", "Processing", "Completed", "Failed"}})]

\* the return test of line 702
executionCompleted(result) == result.Queued = 0 /\ result.Processing = 0

PollThrow(err) ==
  poll' = [poll EXCEPT !.pc = "thrown", !.error = err]

\* pollTestExecution up to its first `await this.checkTestStatus(jobId)`
\* (lines 683-690)
PollStart ==
  /\ poll.pc = "idle"
  /\ IF ~poll.connection
     THEN PollThrow("NoConnection")
     ELSE IF loopContinues(poll.attempts)
     THEN poll' = [poll EXCEPT !.pc = "checking"]
     ELSE PollThrow("Timeout")
  /\ UNCHANGED <<manifest, hcall, deployVars, pool, fetch, items>>

\* the tooling query of checkTestStatus settles (line 727) and the loop body
\* runs to its return or to the 10 second timer (lines 690-708); jsforce
\* answers a query with a records array
PollCheck ==
  /\ poll.pc = "checking"
  /\ \/ \* the query rejects: checkTestStatus and pollTestExecution reject
        poll' = [poll EXCEPT !.pc = "thrown", !.error = "QueryError",
                             !.polls = @ + 1]
     \/ LET result == checkTestStatus(items)
            shown == IF poll.attempts % 3 = 0
                     THEN poll.progress + 1 ELSE poll.progress
        IN  IF executionCompleted(result)
            THEN poll' = [poll EXCEPT !.pc = "returned", !.result = result,
                                      !.polls = @ + 1, !.progress = shown]
            ELSE poll' = [poll EXCEPT !.pc = "sleeping", !.polls = @ + 1,
                                      !.progress = shown]
  /\ UNCHANGED <<manifest, hcall, deployVars, pool, fetch, items>>

\* the timer fires: attempts++ and the loop test (lines 708-712)
PollWake ==
  /\ poll.pc = "sleeping"
  /\ IF loopContinues(poll.attempts + 1)
     THEN poll' = [poll EXCEPT !.pc = "checking", !.attempts = @ + 1]
     ELSE poll' = [poll EXCEPT !.pc = "thrown", !.error = "Timeout",
                               !.attempts = @ + 1]
  /\ UNCHANGED <<manifest, hcall, deployVars, pool, fetch, items>>

\* the org works on the job while the call is running: an item moves on
\* from Queued towards Completed or Failed
ItemAdvance(i) ==
  /\ poll.pc \in {"checking", "sleeping"}
  /\ \/ items[i] = "Queued" /\ items' = [items EXCEPT ![i] = "Preparing"]
     \/ items[i] = "Preparing" /\ items' = [items EXCEPT ![i] = "Processing"]
     \/ items[i] = "Processing" /\ items' = [items EXCEPT ![i] = "Completed"]
     \/ items[i] = "Processing" /\ items' = [items EXCEPT ![i] = "Failed"]
  /\ UNCHANGED <<manifest, hcall, deployVars, pool, fetch, poll>>

PollNext ==
  \/ PollStart
  \/ PollCheck
  \/ PollWake
  \/ \E i \in TestItems : ItemAdvance(i)

\* every await of the call settles and the timer fires; nothing obliges the
\* org to work on the job
SpecPoll ==
  /\ PollInit
  /\ [][PollNext]_vars
  /\ WF_vars(PollStart)
  /\ WF_vars(PollCheck)
  /\ WF_vars(PollWake)

\* ------------------------------------------------------------------------
\* Properties
\* ------------------------------------------------------------------------

\* names a package depends on directly
DepSet(m, n) == Range(dependenciesOf(m, n))

RECURSIVE Closure(_, _)
Closure(m, S) ==
  LET T == S \cup UNION {DepSet(m, n) : n \in S}
  IN  IF T = S THEN S ELSE Closure(m, T)

\* names reachable from n over one or more dependency declarations
ReachableDeps(m, n) == Closure(m, DepSet(m, n))

CycleReachableFrom(m, n) ==
  \E x \in {n} \cup ReachableDeps(m, n) : x \in ReachableDeps(m, x)

Acyclic(m) == \A n \in DOMAIN m : n \notin ReachableDeps(m, n)

\* the same getDeploymentOrder call as the one in hcall, without startFrom
FullOrder == getDeploymentOrder(manifest, hcall.names, hcall.inc, NoStart)

FailedStatuses == FailureKinds \cup {"pollError", "transportError"}

\* RunResult.state of the spec, read off deploy(): resolved is Completed,
\* rejected is Aborted
RunState ==
  IF pc = "done" THEN "Completed"
  ELSE IF pc = "thrown" THEN "Aborted" ELSE "Running"

\* the org a target name denotes among the authorizations, NoConn if none
NamedOrg(e, name) ==
  IF matchingOrg(e.auths, name) # 0
  THEN e.auths[matchingOrg(e.auths, name)].username
  ELSE NoConn

\* setupOrg has run and the SDK gave it no connection: no default org and no
\* authorization to fall back on, or Org.create failed and nothing replaced it
EnvUnresolvable ==
  /\ pc # "start"
  /\ \/ /\ opts.targetOrg = NoOrg
        /\ \/ ~setupIn.cfgOk
           \/ /\ env.defaultAlias = NoOrg
              /\ ~setupIn.listOk \/ env.auths = << >>
     \/ setupIn.create1 = "other"
     \/ /\ setupIn.create1 = "notFound"
        /\ ~setupIn.listOk \/ env.auths = << >> \/ setupIn.create2 = "error"

\* C1: on an acyclic manifest, getDeploymentOrder with includeDependencies and
\* no startFrom returns a sequence in which every dependency of a member that
\* exists in the manifest stands at a strictly earlier index than the member.
C1_TopologicalOrder ==
  (/\ hcall.op = "getDeploymentOrder"
   /\ hcall.inc
   /\ hcall.startFrom = NoStart
   /\ Acyclic(manifest))
  => /\ ~hcall.threw
     /\ \A i \in DOMAIN hcall.order :
          \A d \in DepSet(manifest, hcall.order[i]) \cap DOMAIN manifest :
            \E j \in 1..(i - 1) : hcall.order[j] = d

\* C2: without continueOnFailure, a deployment that ends in failure is the
\* last one of its run: nothing is submitted after it and the run is Aborted
\* with exactly that many packages attempted.
C2_HaltOnFailure ==
  ~opts.continueOnFailure =>
    \A k \in DOMAIN attempts :
      attempts[k].status \in FailedStatuses =>
        /\ k = Len(attempts)
        /\ RunState = "Aborted"

C2_Witness ==
  /\ ~opts.continueOnFailure
  /\ Len(tree.dependency) = 2
  /\ Len(attempts) = 2
  /\ attempts[1].status = "success"
  /\ attempts[2].status \in FailureKinds
  /\ RunState = "Aborted"

\* C3: packages are attempted in plan order and one at a time: only the
\* newest deployment of a run can be in flight, and the nodes of the tree are
\* taken in strictly increasing position.
C3_OneAtATime ==
  /\ \A k \in 1..(Len(attempts) - 1) : attempts[k].status # "inflight"
  /\ \A j, k \in DOMAIN attempts : j < k => attempts[j].idx < attempts[k].idx
  /\ (pc = "polling") <=>
       (attempts # << >> /\ attempts[Len(attempts)].status = "inflight")

C3_Witness ==
  /\ Len(attempts) = 3
  /\ attempts[1].status = "success"
  /\ attempts[2].status = "success"
  /\ attempts[3].status = "inflight"

\* C4: getPackageDependencies with includeTransitive raises when a dependency
\* cycle is reachable from the requested package.
C4_CycleRaises ==
  (/\ hcall.op = "getPackageDependencies"
   /\ hcall.inc
   /\ getPackageByName(manifest, hcall.names[1])
   /\ CycleReachableFrom(manifest, hcall.names[1]))
  => hcall.threw

\* C5: when startFrom is in the full sequence, getDeploymentOrder returns the
\* suffix of the full sequence that begins at startFrom.
C5_ResumeSuffix ==
  (/\ hcall.op = "getDeploymentOrder"
   /\ hcall.startFrom # NoStart
   /\ ~FullOrder.threw
   /\ hcall.startFrom \in Range(FullOrder.order))
  => /\ ~hcall.threw
     /\ \E k \in DOMAIN FullOrder.order :
          /\ FullOrder.order[k] = hcall.startFrom
          /\ \A j \in 1..(k - 1) : FullOrder.order[j] # hcall.startFrom
          /\ hcall.order = [i \in 1..(Len(FullOrder.order) - k + 1) |->
                              FullOrder.order[i + k - 1]]

C5_Witness ==
  /\ hcall.op = "getDeploymentOrder"
  /\ Len(FullOrder.order) = 2
  /\ hcall.startFrom = FullOrder.order[2]
  /\ hcall.order = <<hcall.startFrom>>

\* C6: when startFrom is not in the full sequence, getDeploymentOrder warns
\* and returns the full sequence, as the call without startFrom does.
C6_StartNotFound ==
  (/\ hcall.op = "getDeploymentOrder"
   /\ hcall.startFrom # NoStart
   /\ ~FullOrder.threw
   /\ hcall.startFrom \notin Range(FullOrder.order))
  => /\ ~hcall.threw
     /\ hcall.order = FullOrder.order
     /\ hcall.warns = Append(FullOrder.warns, <<"StartNotFound", hcall.startFrom>>)

C6_Witness ==
  /\ hcall.op = "getDeploymentOrder"
  /\ hcall.startFrom \in PkgNames
  /\ Len(hcall.order) = 2
  /\ hcall.startFrom \notin Range(hcall.order)
  /\ <<"StartNotFound", hcall.startFrom>> \in Range(hcall.warns)

C8_ContinueOnFailure ==
  opts.continueOnFailure =>
    \A k \in DOMAIN attempts :
      attempts[k].status \in FailureKinds => RunState # "Aborted"

\* C9: when the target environment cannot be resolved, the run fails and no
\* deployment is submitted.
C9_NoEnvironmentNoDeploy ==
  EnvUnresolvable =>
    /\ attempts = << >>
    /\ org = NoConn
    /\ RunState = "Aborted"

C9_Witness ==
  /\ EnvUnresolvable
  /\ setupIn.create1 = "other"
  /\ env.auths # << >>
  /\ RunState = "Aborted"

\* C10 as stated: with a named target every deployment goes over a
\* connection to the named environment.
C10_OnlyNamedTarget ==
  opts.targetOrg # NoOrg =>
    \A k \in DOMAIN attempts : attempts[k].conn = NamedOrg(env, opts.targetOrg)

\* C10 amended: with a named target every deployment goes over a connection
\* to the named environment, or, when no authorization matches the name, to
\* the first authenticated org, after a warning; without a connection nothing
\* is deployed.
C10_NamedTargetOrFirstOrg ==
  opts.targetOrg # NoOrg =>
    /\ \A k \in DOMAIN attempts :
         \/ attempts[k].conn = NamedOrg(env, opts.targetOrg)
         \/ /\ NamedOrg(env, opts.targetOrg) = NoConn
            /\ attempts[k].conn = env.auths[1].username
            /\ <<"warning", "CouldNotFindOrgUsingFirst", opts.targetOrg,
                 env.auths[1].username>> \in Range(log)
    /\ org = NoConn => attempts = << >>

C10_Witness ==
  /\ opts.targetOrg # NoOrg
  /\ NamedOrg(env, opts.targetOrg) = NoConn
  /\ Len(attempts) = 3
  /\ attempts[3].conn = env.auths[1].username

\* C11: in a run with checkOnly set, every deployment handed to the remote
\* client carries checkOnly, those of the dependencies and that of the
\* requested package alike; none is a real deployment.
C11_CheckOnlyCarried ==
  opts.checkOnly => \A k \in DOMAIN attempts : attempts[k].checkOnly

C11_Witness ==
  /\ opts.checkOnly
  /\ Len(attempts) = 3
  /\ attempts[1].status = "success"
  /\ attempts[3].pkg = opts.packageName
  /\ attempts[3].checkOnly

TransportStatuses == {"transportError", "pollError"}

\* C12: when the remote client rejects the submission or the polling of a
\* deployment, deploy rejects with that error at once: the deployment is the
\* last one of the run, nothing is submitted after it, the package is not
\* tried again.
C12_TransportErrorAborts ==
  \A k \in DOMAIN attempts :
    attempts[k].status \in TransportStatuses =>
      /\ k = Len(attempts)
      /\ pc = "thrown"
      /\ error = << (IF attempts[k].status = "pollError"
                     THEN "PollError" ELSE "TransportError"),
                    attempts[k].pkg >>
      /\ log[Len(log)] = <<"error", "DeploymentFailed", error>>

C12_Witness ==
  /\ Len(tree.dependency) = 2
  /\ Len(attempts) = 2
  /\ attempts[1].status = "success"
  /\ attempts[2].status = "pollError"
  /\ pc = "thrown"

\* C13: once cancellation has been requested no further deployment is
\* started, and the run does not end Completed.
C13_CancelStopsRun ==
  [][cancelRequested => /\ Len(attempts') = Len(attempts)
                        /\ pc' # "done"]_vars

\* C17: when a cycle of dependency declarations is reachable from the
\* requested package, deploy with dependencies rejects with a circular
\* dependency error and has submitted nothing.
C17_CycleFailsBeforeSubmit ==
  (/\ opts.includeDependencies
   /\ tree.found
   /\ CycleReachableFrom(manifest, opts.packageName))
  => /\ attempts = << >>
     /\ pc # "done"

\* the dependencies deploy is to attempt with the requested package: those
\* reachable over the declarations that have a descriptor, the ones the alias
\* map gives a managed package version excepted
WantedDeps ==
  {d \in ReachableDeps(manifest, opts.packageName) \cap DOMAIN manifest :
     aliases[d] # AliasManaged}

\* C18: a completed run with dependencies and no startFrom has attempted
\* every wanted dependency, transitive ones included, each package after the
\* wanted packages it depends on, and the requested package last.
C18_AllDependenciesInOrder ==
  (/\ pc = "done"
   /\ opts.includeDependencies
   /\ opts.startFrom = NoStart)
  => /\ \A d \in WantedDeps : \E k \in DOMAIN attempts : attempts[k].pkg = d
     /\ attempts[Len(attempts)].pkg = opts.packageName
     /\ \A k \in DOMAIN attempts :
          \A d \in (DepSet(manifest, attempts[k].pkg) \cap WantedDeps)
                     \ {attempts[k].pkg} :
            \E j \in 1..(k - 1) : attempts[j].pkg = d

FinishedLog == <<"success", "DeploymentFinished">>

\* C19: without continueOnFailure, deploy resolves and reports "Deployment
\* finished" only when every deployment of the run succeeded; a run that a
\* failure or an error stopped is rejected and has not reported success.
C19_SuccessOnlyIfAllSucceeded ==
  ~opts.continueOnFailure =>
    /\ pc = "done" => \A k \in DOMAIN attempts : attempts[k].status = "success"
    /\ FinishedLog \in Range(log) <=> pc = "done"
    /\ (\E k \in DOMAIN attempts : attempts[k].status \in FailedStatuses)
         => /\ RunState = "Aborted"
            /\ FinishedLog \notin Range(log)

C19_Witness ==
  /\ ~opts.continueOnFailure
  /\ pc = "done"
  /\ Len(attempts) = 3
  /\ FinishedLog \in Range(log)

\* C20: every deployment carries the test level of the options, and with
\* RunSpecifiedTests the test classes of the options.
C20_TestLevelCarried ==
  opts.testLevel # NoTestLevel =>
    \A k \in DOMAIN attempts :
      /\ attempts[k].testLevel = opts.testLevel
      /\ opts.testLevel = "RunSpecifiedTests"
           => attempts[k].runTests = opts.runTests

\* the manifest with every reference to a name without a descriptor deleted
withoutDangling(m) ==
  [n \in DOMAIN m |-> SelectSeq(m[n], LAMBDA d : getPackageByName(m, d))]

\* the names the traversal of getPackageDependencies comes to
Traversed(m, n, incTrans) ==
  IF incTrans THEN ReachableDeps(m, n) ELSE DepSet(m, n)

\* C14: when the dependencies of an existing package, direct or transitive,
\* name a package that has no descriptor, getPackageDependencies does not
\* throw, returns what it returns on the manifest without that reference, and
\* warns about the missing name.
C14_DanglingTolerated ==
  (/\ hcall.op = "getPackageDependencies"
   /\ getPackageByName(manifest, hcall.names[1])
   /\ Dangling \in Traversed(manifest, hcall.names[1], hcall.inc))
  => /\ ~hcall.threw
     /\ hcall.order = getPackageDependencies(withoutDangling(manifest),
                                             hcall.names[1], hcall.inc).order
     /\ <<"DependencyNotFound", Dangling>> \in Range(hcall.warns)

C14_Witness ==
  /\ hcall.op = "getPackageDependencies"
  /\ hcall.inc
  /\ getPackageByName(manifest, hcall.names[1])
  /\ Dangling \in ReachableDeps(manifest, hcall.names[1])
  /\ Dangling \notin DepSet(manifest, hcall.names[1])
  /\ hcall.order # << >>
  /\ <<"DependencyNotFound", Dangling>> \in Range(hcall.warns)

OrderAfter(i) ==
  getDeploymentOrder(manifest, SubSeq(hcall.names, 1, i), hcall.inc,
                     NoStart).order

\* C21: the sequence getDeploymentOrder returns names no package twice,
\* names only packages of the manifest, and keeps first-seen order: what an
\* earlier requested name placed stays in front of what a later one places.
C21_NoDuplicateFirstSeen ==
  (hcall.op = "getDeploymentOrder" /\ ~hcall.threw)
  => LET after == [k \in DOMAIN hcall.names |-> OrderAfter(k)]
         \* the requested name during whose processing n was placed
         placedAt(n) == CHOOSE k \in DOMAIN after :
                          /\ n \in Range(after[k])
                          /\ \A l \in 1..(k - 1) : n \notin Range(after[l])
     IN  /\ \A i, j \in DOMAIN hcall.order :
              hcall.order[i] = hcall.order[j] => i = j
         /\ \A i \in DOMAIN hcall.order :
              /\ getPackageByName(manifest, hcall.order[i])
              /\ \E k \in DOMAIN after : hcall.order[i] \in Range(after[k])
         /\ \A i, j \in DOMAIN hcall.order :
              i < j => placedAt(hcall.order[i]) <= placedAt(hcall.order[j])
         /\ \A k \in 1..(Len(hcall.names) - 1) :
              SubSeq(after[k + 1], 1, Len(after[k])) = after[k]

C21_Witness ==
  /\ hcall.op = "getDeploymentOrder"
  /\ ~hcall.threw
  /\ Len(hcall.names) = 2
  /\ hcall.names[1] = hcall.names[2]
  /\ hcall.order = << hcall.names[1] >>

\* C22: getDeploymentOrder throws exactly when a cycle of dependency
\* declarations, a self-reference included, is reachable from a requested
\* name that has a descriptor, with includeDependencies or without.
C22_ThrowsIffCycleReachable ==
  hcall.op = "getDeploymentOrder"
  => (hcall.threw <=>
        \E i \in DOMAIN hcall.names :
          /\ getPackageByName(manifest, hcall.names[i])
          /\ CycleReachableFrom(manifest, hcall.names[i]))

C22_Witness ==
  /\ hcall.op = "getDeploymentOrder"
  /\ ~hcall.inc
  /\ hcall.threw
  /\ hcall.names[1] \notin DepSet(manifest, hcall.names[1])
  /\ hcall.order = << >>

\* C24: without startFrom, every requested name that has a descriptor is in
\* the sequence getDeploymentOrder returns.
C24_RequestedAppear ==
  (/\ hcall.op = "getDeploymentOrder"
   /\ hcall.startFrom = NoStart
   /\ ~hcall.threw)
  => \A i \in DOMAIN hcall.names :
       getPackageByName(manifest, hcall.names[i])
         => hcall.names[i] \in Range(hcall.order)

\* C25: when a package and one of its declared dependencies are both in the
\* sequence getDeploymentOrder returns, the dependency stands at the smaller
\* index.
C25_DependencyNeverAfter ==
  (hcall.op = "getDeploymentOrder" /\ ~hcall.threw)
  => \A i, j \in DOMAIN hcall.order :
       hcall.order[j] \in DepSet(manifest, hcall.order[i]) => j < i

C25_Witness ==
  /\ hcall.op = "getDeploymentOrder"
  /\ ~hcall.threw
  /\ Len(hcall.order) = 2
  /\ hcall.order[1] \in DepSet(manifest, hcall.order[2])

\* the packages of the deployments handed to the remote client, in order
AttemptedPkgs == [k \in DOMAIN attempts |-> attempts[k].pkg]

\* the tree's dependencies that deploy() can deploy: those with a path
DeployableDeps ==
  LET deps == SelectSeq(tree.dependency, LAMBDA d : d.hasPath)
  IN  [k \in DOMAIN deps |-> deps[k].packagename]

\* C23: a run with dependencies whose startFrom names none of the
\* dependencies logs a warning and deploys the whole sequence: every
\* dependency in order, then the requested package.
C23_StartFromUnmatchedDeploysAll ==
  (/\ pc = "done"
   /\ opts.includeDependencies
   /\ opts.startFrom # NoStart
   /\ tree.dependency # << >>
   /\ \A k \in DOMAIN tree.dependency :
        tree.dependency[k].packagename # opts.startFrom)
  => /\ AttemptedPkgs = DeployableDeps \o << opts.packageName >>
     /\ \E i \in DOMAIN log : log[i][1] = "warning"

\* C26: no package is handed to the remote client twice in one run.
C26_NoPackageTwice ==
  \A j, k \in DOMAIN attempts : attempts[j].pkg = attempts[k].pkg => j = k

\* C27: a declared dependency of the requested package whose packageAliases
\* entry is a managed package version (04t) is not in the dependency tree and
\* is not handed to the remote client.
C27_ManagedNeverDeployed ==
  \A d \in DepSet(manifest, opts.packageName) :
    aliases[d] = AliasManaged =>
      /\ tree.found => \A k \in DOMAIN tree.dependency :
                         tree.dependency[k].packagename # d
      /\ \A k \in DOMAIN attempts : attempts[k].pkg # d

\* C28: a completed run with dependencies and no startFrom has handed every
\* direct dependency that has a package directory and is not a managed
\* package to the remote client before the requested package, with or
\* without a packageAliases entry.
C28_DirectDependenciesDeployed ==
  (/\ pc = "done"
   /\ opts.includeDependencies
   /\ opts.startFrom = NoStart)
  => \A d \in DepSet(manifest, opts.packageName) :
       (getPackageByName(manifest, d) /\ aliases[d] # AliasManaged)
         => \E k \in 1..(Len(attempts) - 1) : attempts[k].pkg = d

\* C29: an org that fetchScratchOrg has returned is Allocated, and no other
\* fetchScratchOrg call, later or at the same time, returns the same org.
C29_ExclusiveAllocation ==
  \A c \in Fetchers :
    fetch[c].pc = "returned" =>
      /\ pool[fetch[c].org].status = "Allocated"
      /\ \A d \in Fetchers \ {c} :
           fetch[d].pc = "returned" => fetch[d].org # fetch[c].org

PollTerminated == poll.pc \in {"returned", "thrown"}

====
